---- MODULE Spec2Model ----
(***************************************************************************)
(* Stock ledger of the inventory application: the products and             *)
(* stock_movements tables of the migration, the row-level policies and     *)
(* the update_product_quantity trigger, driven by the Products and Stock   *)
(* pages and by direct calls of the table API.                             *)
(*                                                                         *)
(* Quantities are DECIMAL(_,2) values held as integers in hundredths;      *)
(* what a caller sends is held in thousandths, so that the column's        *)
(* rounding is part of the model.                                          *)
(***************************************************************************)
EXTENDS Integers, Sequences, FiniteSets, TLC

(* ------------------------------ bounds -------------------------------- *)

\* Movement inserts that get past the table's checks.
MaxMovements == 2

\* Digits of the DECIMAL(p,2) quantity columns. The migration declares 10;
\* the model keeps fewer so that the column's largest value is within reach.
NumericPrecision == 4

\* Movement inserts of a run in which statements follow one another.
MaxReplay == 4

\* Movements recorded one after another before the history is looked at: two
\* more than the history holds.
MaxHistory == 52

(* ----------------------------- identities ----------------------------- *)

\* Browsers, both signed in to the same account.
Clients == {"c1", "c2"}
Users == {"u1", "u2"}
NoSession == "null"
EmptyUserId == ""

\* The session each browser starts with.
InitialSession == [c \in Clients |-> "u1"]

(* ------------------------------ numerics ------------------------------ *)

RECURSIVE Pow10(_)
Pow10(n) == IF n = 0 THEN 1 ELSE 10 * Pow10(n - 1)

\* Largest absolute value of a DECIMAL(NumericPrecision,2), in hundredths.
NumericMax == Pow10(NumericPrecision) - 1

\* Rounding of a value in thousandths to two decimals (half away from zero).
NumericRound(x) == IF x >= 0 THEN (x + 5) \div 10 ELSE 0 - ((5 - x) \div 10)

NumericFits(x) == x <= NumericMax /\ 0 - x <= NumericMax

GREATEST(a, b) == IF a >= b THEN a ELSE b

\* parseFloat of the text of a number input, in thousandths.
parseFloat(s) ==
    CASE s = "-1" -> 0 - 1000
      [] s = "0" -> 0
      [] s = "0.004" -> 4
      [] s = "10" -> 10000
      [] s = "15" -> 15000
      [] s = "90" -> 90000

\* Texts the quantity field of the movement form is submitted with.
QuantityTexts == {"", "-1", "0", "0.004", "15", "90"}

\* Texts the minimum_quantity field of the product form is submitted with.
MinimumTexts == {"-1", "10"}

\* The same field over the range the column allows, for a catalogue that is
\* built from nothing.
FreshMinimumTexts == {"-1", "0", "10", "15"}

\* Quantities of the movements of such a catalogue.
FreshQuantityTexts == {"15", "90"}

\* What a direct call of the table API sends as quantity (thousandths) and
\* responsible_user_id: a zero quantity in the caller's own name, and a valid
\* quantity in another user's name.
ApiRows == {[quantity |-> 0, responsible_user_id |-> "u1"],
            [quantity |-> 15000, responsible_user_id |-> "u2"]}

\* The quantity (thousandths) a direct UPDATE of a movement sets.
ApiUpdateQuantities == {90000}

MovementTypes == {"entrada", "saida"}

(* ------------------------------- tables ------------------------------- *)

\* The seeded product row 'Furadeira Eletrica 500W' (hundredths); the other
\* seeded rows are taken to have been deleted.
SeedProducts ==
    1 :> [current_quantity |-> 2000, minimum_quantity |-> 500]

\* Ids the products table hands out: 1 to the seeded row, 2 to a created one.
ProductIds == {1, 2}

VARIABLES
    products,          \* id -> row of public.products (committed)
    nextProductId,     \* ids are never handed out twice
    stock_movements,   \* committed rows of public.stock_movements, in commit order
    nextMovementId,
    session,           \* client -> user id of its session, or NoSession
    userId,            \* client -> the Stock page's userId state
    pc,                \* client -> "idle" | "inserted"
    tx,                \* client -> the row its open statement has inserted
    response,          \* status of the last call that was answered
    categories,        \* ids of the rows of public.categories
    category_id,       \* product id -> products.category_id, or NoCategory
    location,          \* client -> the route its browser shows
    pending,           \* client -> calls of the mounted page not yet answered
    pageProducts,      \* client -> the mounted page's products state
    pageMovements,     \* client -> the Stock page's movements state
    pageCategories,    \* client -> the Products page's categories state
    counted,           \* client -> results loadDashboardData has so far
    stats              \* client -> the Dashboard's stats state

\* The tables and the statements: what the ledger is made of.
ledgerVars == <<products, nextProductId, stock_movements, nextMovementId,
                session, userId, pc, tx, response>>

\* The category column, and what the mounted pages hold.
catalogVars == <<categories, category_id>>
pageVars == <<location, pending, pageProducts, pageMovements, pageCategories,
              counted, stats>>

vars == <<ledgerVars, catalogVars, pageVars>>

NoTx == [id |-> 0]

NoResponse == "none"

\* The toasts of a movement form the Stock page does not send.
ToastRequired == "Preencha todos os campos obrigatorios"
ToastQuantity == "A quantidade deve ser maior que zero"

\* What the table API answers: "ok", or the SQLSTATE of the error (with the
\* constraint's name for a check violation).
InvalidUuid == "22P02"
NumericOverflow == "22003"
PolicyViolation == "42501"
ForeignKeyViolation == "23503"
MovementTypeCheck == "23514 stock_movements_movement_type_check"
MovementQuantityCheck == "23514 stock_movements_quantity_check"
CurrentQuantityCheck == "23514 products_current_quantity_check"
MinimumQuantityCheck == "23514 products_minimum_quantity_check"

Responded(c, status) == response' = status

\* The toasts of a movement form the Stock page has sent.
ToastSuccess == "Movimentacao registrada com sucesso!"
ToastError == "Erro ao registrar movimentacao"

\* Mutant: the page shows the success toast without looking at error.
Toast_IgnoresError(status) ==
    IF status \in {NoResponse, ToastRequired, ToastQuantity}
    THEN status
    ELSE ToastSuccess

\* What the Stock page shows for the answer to a submission: its own message
\* for a form it did not send, else one of two toasts by `if (error)`.
Toast(status) ==
    IF status \in {NoResponse, ToastRequired, ToastQuantity}
    THEN status
    ELSE IF status # "ok"
    THEN ToastError
    ELSE ToastSuccess

\* "no product chosen" in the movement form (formData.product_id = "").
NoProductSelected == 0

\* categories.id of the three seeded rows, and "no category" (null).
CategoryIds == {1, 2, 3}
NoCategory == 0

\* category_id of the seeded product: 'Ferramentas Eletricas'.
SeedCategory == 1 :> 2

Routes == {"/", "/dashboard", "/products", "/stock", "/auth"}

\* useState of DashboardStats.
NoStats ==
    [totalProducts |-> 0, lowStockProducts |-> 0,
     totalEntries |-> 0, totalExits |-> 0]

\* The pages of the given browsers are followed, and none is mounted yet:
\* each shows the authentication flow.
PagesClosed(browsers) ==
    /\ location = [c \in browsers |-> "/auth"]
    /\ pending = [c \in browsers |-> {}]
    /\ pageProducts = [c \in browsers |-> <<>>]
    /\ pageMovements = [c \in browsers |-> <<>>]
    /\ pageCategories = [c \in browsers |-> {}]
    /\ counted = [c \in browsers |-> <<>>]
    /\ stats = [c \in browsers |-> NoStats]

Init ==
    /\ categories = CategoryIds
    /\ category_id = [id \in ProductIds |->
                         IF id \in DOMAIN SeedCategory
                         THEN SeedCategory[id] ELSE NoCategory]
    /\ PagesClosed({})
    /\ products = SeedProducts
    /\ nextProductId = 2
    /\ stock_movements = <<>>
    /\ nextMovementId = 1
    /\ session = InitialSession
    /\ userId = [c \in Clients |-> EmptyUserId]
    /\ pc = [c \in Clients |-> "idle"]
    /\ tx = [c \in Clients |-> NoTx]
    /\ response = NoResponse

(* ------------------- INSERT INTO public.stock_movements --------------- *)

\* The value a DECIMAL(_,2) column stores for what the caller sent.
StoredQuantity(q) == NumericRound(q)

\* Mutant: the policy written WITH CHECK (true).
InsertPolicy_AnyAuthenticated(c, responsible_user_id) ==
    session[c] # NoSession

\* WITH CHECK (auth.uid() = responsible_user_id), TO authenticated.
InsertPolicy(c, responsible_user_id) ==
    /\ session[c] # NoSession
    /\ session[c] = responsible_user_id

\* Mutant: CHECK (quantity >= 0).
QuantityCheck_NonNegative(quantity) == quantity >= 0

\* CHECK (quantity > 0)
QuantityCheck(quantity) == quantity > 0

\* Mutant: product_id declared without REFERENCES.
ProductExists_Unchecked(product_id) == TRUE

\* product_id REFERENCES public.products(id)
ProductExists(product_id) == product_id \in DOMAIN products

\* What the insert of one row by client c is answered with before the trigger
\* runs; "ok" when the row is inserted.
InsertStatus(c, product_id, movement_type, q, responsible_user_id) ==
    IF responsible_user_id = EmptyUserId THEN InvalidUuid
    ELSE IF ~NumericFits(StoredQuantity(q)) THEN NumericOverflow
    ELSE IF ~InsertPolicy(c, responsible_user_id) THEN PolicyViolation
    ELSE IF movement_type \notin MovementTypes THEN MovementTypeCheck
    ELSE IF ~QuantityCheck(StoredQuantity(q)) THEN MovementQuantityCheck
    ELSE IF ~ProductExists(product_id) THEN ForeignKeyViolation
    ELSE "ok"

\* A call that is answered without any row written.
Refuse(c, why) ==
    /\ Responded(c, why)
    /\ UNCHANGED <<products, nextProductId, stock_movements, nextMovementId,
                   session, userId, pc, tx>>

\* current_quantity of a product in the snapshot a statement begins with (0
\* stands for "no such row").
Snapshot(product_id) ==
    IF product_id \in DOMAIN products
    THEN products[product_id].current_quantity
    ELSE 0

\* The statement of client c: the row is refused, or it is inserted (not yet
\* committed, holding a key-share lock on its product) and the trigger is due.
\* seen is current_quantity in the snapshot the statement began with.
InsertMovement(c, product_id, movement_type, q, responsible_user_id) ==
    LET status == InsertStatus(c, product_id, movement_type, q, responsible_user_id)
    IN  IF status # "ok"
        THEN Refuse(c, status)
        ELSE /\ nextMovementId <= MaxMovements
             /\ tx' = [tx EXCEPT ![c] =
                          [id |-> nextMovementId,
                           product_id |-> product_id,
                           movement_type |-> movement_type,
                           quantity |-> StoredQuantity(q),
                           responsible_user_id |-> responsible_user_id,
                           seen |-> Snapshot(product_id)]]
             /\ nextMovementId' = nextMovementId + 1
             /\ pc' = [pc EXCEPT ![c] = "inserted"]
             /\ UNCHANGED <<products, nextProductId, stock_movements,
                            session, userId, response>>

\* A direct call of the table API with the client's token.
RestInsert(c, product_id, movement_type, q, responsible_user_id) ==
    /\ pc[c] = "idle"
    /\ InsertMovement(c, product_id, movement_type, q, responsible_user_id)

\* Mutant: a policy FOR ALL TO authenticated USING (true).
ModifiableMovements_All(c) ==
    IF session[c] = NoSession
    THEN {}
    ELSE {stock_movements[i].id : i \in DOMAIN stock_movements}

\* Rows of stock_movements an UPDATE or a DELETE of client c applies to: the
\* table has a SELECT and an INSERT policy and no other, so none.
ModifiableMovements(c) == {}

\* DELETE FROM stock_movements WHERE id = ..., through the table API.
RestDeleteMovement(c, id) ==
    /\ pc[c] = "idle"
    /\ stock_movements' =
           SelectSeq(stock_movements,
                     LAMBDA m : ~(m.id = id /\ m.id \in ModifiableMovements(c)))
    /\ Responded(c, "ok")
    /\ UNCHANGED <<products, nextProductId, nextMovementId, session, userId,
                   pc, tx>>

\* UPDATE stock_movements SET quantity = ... WHERE id = ..., through the API.
RestUpdateMovement(c, id, q) ==
    /\ pc[c] = "idle"
    /\ stock_movements' =
           [i \in DOMAIN stock_movements |->
               IF stock_movements[i].id = id /\ id \in ModifiableMovements(c)
               THEN [stock_movements[i] EXCEPT !.quantity = StoredQuantity(q)]
               ELSE stock_movements[i]]
    /\ Responded(c, "ok")
    /\ UNCHANGED <<products, nextProductId, nextMovementId, session, userId,
                   pc, tx>>

(* --------------------------- Stock page ------------------------------- *)

checkAuth(c) ==
    /\ session[c] # NoSession
    /\ userId[c] # session[c]
    /\ userId' = [userId EXCEPT ![c] = session[c]]
    /\ UNCHANGED <<products, nextProductId, stock_movements, nextMovementId,
                   session, pc, tx, response>>

handleSubmit(c, product_id, movement_type, quantityText) ==
    /\ pc[c] = "idle"
    /\ IF product_id = NoProductSelected \/ quantityText = ""
       THEN Refuse(c, ToastRequired)
       ELSE IF parseFloat(quantityText) <= 0
       THEN Refuse(c, ToastQuantity)
       ELSE InsertMovement(c, product_id, movement_type,
                           parseFloat(quantityText), userId[c])

(* -------------------- trigger on_stock_movement_created --------------- *)

\* Mutant: the exit branch tests a literal no row carries, so exits change
\* nothing.
update_product_quantity_SaidaMisspelt(current_quantity, new) ==
    IF new.movement_type = "entrada"
    THEN current_quantity + new.quantity
    ELSE IF new.movement_type = "saída"
    THEN GREATEST(current_quantity - new.quantity, 0)
    ELSE current_quantity

\* Mutant: an entry overwrites the balance instead of adding to it.
update_product_quantity_EntryOverwrites(current_quantity, new) ==
    IF new.movement_type = "entrada"
    THEN new.quantity
    ELSE IF new.movement_type = "saida"
    THEN GREATEST(current_quantity - new.quantity, 0)
    ELSE current_quantity

\* Mutant: the exit is subtracted without GREATEST(..., 0).
update_product_quantity_Unfloored(current_quantity, new) ==
    IF new.movement_type = "entrada"
    THEN current_quantity + new.quantity
    ELSE IF new.movement_type = "saida"
    THEN current_quantity - new.quantity
    ELSE current_quantity

\* Mutant: an entry saturates at the column's largest value.
update_product_quantity_Saturates(current_quantity, new) ==
    IF new.movement_type = "entrada"
    THEN IF current_quantity + new.quantity > NumericMax
         THEN NumericMax
         ELSE current_quantity + new.quantity
    ELSE IF new.movement_type = "saida"
    THEN GREATEST(current_quantity - new.quantity, 0)
    ELSE current_quantity

\* The SET expressions of the trigger's two UPDATEs.
update_product_quantity(current_quantity, new) ==
    IF new.movement_type = "entrada"
    THEN current_quantity + new.quantity
    ELSE IF new.movement_type = "saida"
    THEN GREATEST(current_quantity - new.quantity, 0)
    ELSE current_quantity

\* Mutant: the UPDATE has no WHERE clause.
UpdateWhere_AllRows(id, new) == TRUE

\* WHERE id = NEW.product_id
UpdateWhere(id, new) == id = new.product_id

\* Mutant: the balance is computed from the value the statement first saw
\* (a read followed by a write of the result).
RowRead_Snapshot(row, new) == new.seen

\* current_quantity on the right of the SET: the row's value once the UPDATE
\* holds the row lock (the latest committed one), not the statement's snapshot.
RowRead(row, new) == row.current_quantity

\* Mutant: an exit floors the balance at the row's minimum_quantity.
TriggerUpdate_FloorAtMinimum(prods, new) ==
    [id \in DOMAIN prods |->
        IF UpdateWhere(id, new)
        THEN [prods[id] EXCEPT !.current_quantity =
                 IF new.movement_type = "saida"
                 THEN GREATEST(RowRead(prods[id], new) - new.quantity,
                               prods[id].minimum_quantity)
                 ELSE update_product_quantity(RowRead(prods[id], new), new)]
        ELSE prods[id]]

\* Mutant: the trigger's SET list also names minimum_quantity.
TriggerUpdate_SetsMinimum(prods, new) ==
    [id \in DOMAIN prods |->
        IF UpdateWhere(id, new)
        THEN [current_quantity |->
                 update_product_quantity(RowRead(prods[id], new), new),
              minimum_quantity |-> new.quantity]
        ELSE prods[id]]

\* The products table as the trigger's UPDATE leaves it.
TriggerUpdate(prods, new) ==
    [id \in DOMAIN prods |->
        IF UpdateWhere(id, new)
        THEN [prods[id] EXCEPT !.current_quantity =
                 update_product_quantity(RowRead(prods[id], new), new)]
        ELSE prods[id]]

\* The answer to a table the UPDATE would leave: CHECK (current_quantity >= 0)
\* and the column's range.
UpdateStatus(prods) ==
    IF \E id \in DOMAIN prods : ~NumericFits(prods[id].current_quantity)
    THEN NumericOverflow
    ELSE IF \E id \in DOMAIN prods : prods[id].current_quantity < 0
    THEN CurrentQuantityCheck
    ELSE "ok"

MovementRow(t) ==
    [id |-> t.id, product_id |-> t.product_id,
     movement_type |-> t.movement_type, quantity |-> t.quantity,
     responsible_user_id |-> t.responsible_user_id]

\* Mutant: the trigger's failure is swallowed and the inserted row is kept.
Rollback_KeepsRow(prods, movements, new, status) ==
    [products |-> prods,
     stock_movements |-> Append(movements, [id |-> new.id,
                                          product_id |-> new.product_id,
                                          movement_type |-> new.movement_type,
                                          quantity |-> new.quantity,
                                          responsible_user_id |-> new.responsible_user_id]),
     status |-> status]

\* The statement fails in its trigger: nothing it wrote is kept.
Rollback(prods, movements, new, status) ==
    [products |-> prods, stock_movements |-> movements, status |-> status]

\* Mutant: the exit is subtracted without a floor and the column has no CHECK.
StatementOutcome_NoFloorNoCheck(prods, movements, new) ==
    [products |->
        [id \in DOMAIN prods |->
            IF UpdateWhere(id, new)
            THEN [prods[id] EXCEPT !.current_quantity =
                     update_product_quantity_Unfloored(RowRead(prods[id], new), new)]
            ELSE prods[id]],
     stock_movements |-> Append(movements, MovementRow(new)),
     status |-> "ok"]

\* What the end of the statement that inserted row new leaves of the two
\* tables: the row and the new quantity, or neither.
StatementOutcome(prods, movements, new) ==
    LET after == TriggerUpdate(prods, new)
        status == UpdateStatus(after)
    IN  IF status = "ok"
        THEN [products |-> after,
              stock_movements |-> Append(movements, MovementRow(new)),
              status |-> "ok"]
        ELSE Rollback(prods, movements, new, status)

\* The trigger's UPDATE and the commit of the statement (or its rollback).
Commit(c) ==
    /\ pc[c] = "inserted"
    /\ LET out == StatementOutcome(products, stock_movements, tx[c])
       IN  /\ products' = out.products
           /\ stock_movements' = out.stock_movements
           /\ Responded(c, out.status)
    /\ pc' = [pc EXCEPT ![c] = "idle"]
    /\ tx' = [tx EXCEPT ![c] = NoTx]
    /\ UNCHANGED <<nextProductId, nextMovementId, session, userId>>

(* -------------------------- Products page ----------------------------- *)

\* CHECK (minimum_quantity >= 0) and the column's range.
MinimumStatus(m) ==
    IF ~NumericFits(m) THEN NumericOverflow
    ELSE IF m < 0 THEN MinimumQuantityCheck
    ELSE "ok"

\* Mutant: the policies of public.products written without TO authenticated.
VisibleProducts_Public(c) == DOMAIN products

\* Rows a client's statement on public.products can see and change
\* (policies TO authenticated USING (true)).
VisibleProducts(c) == IF session[c] = NoSession THEN {} ELSE DOMAIN products

\* Another statement has inserted a movement of the product and not yet
\* committed: its key-share lock on the row makes a DELETE wait.
KeyShareLocked(product_id) ==
    \E c \in Clients : pc[c] = "inserted" /\ tx[c].product_id = product_id

\* Mutant: the insert sends an opening stock of 1.00.
handleSubmitCreate_OpeningStock(c, minimumText) ==
    LET minimum_quantity == StoredQuantity(parseFloat(minimumText))
    IN  /\ pc[c] = "idle"
        /\ IF session[c] = NoSession
           THEN Refuse(c, PolicyViolation)
           ELSE IF MinimumStatus(minimum_quantity) # "ok"
           THEN Refuse(c, MinimumStatus(minimum_quantity))
           ELSE /\ nextProductId \in ProductIds
                /\ products' = products @@
                       (nextProductId :>
                           [current_quantity |-> 100,
                            minimum_quantity |-> minimum_quantity])
                /\ nextProductId' = nextProductId + 1
                /\ Responded(c, "ok")
                /\ UNCHANGED <<stock_movements, nextMovementId, session,
                               userId, pc, tx>>

\* handleSubmit with editingProduct = null.
handleSubmitCreate(c, minimumText) ==
    LET minimum_quantity == StoredQuantity(parseFloat(minimumText))
    IN  /\ pc[c] = "idle"
        /\ IF session[c] = NoSession
           THEN Refuse(c, PolicyViolation)
           ELSE IF MinimumStatus(minimum_quantity) # "ok"
           THEN Refuse(c, MinimumStatus(minimum_quantity))
           ELSE /\ nextProductId \in ProductIds
                /\ products' = products @@
                       (nextProductId :>
                           [current_quantity |-> 0,
                            minimum_quantity |-> minimum_quantity])
                /\ nextProductId' = nextProductId + 1
                /\ Responded(c, "ok")
                /\ UNCHANGED <<stock_movements, nextMovementId, session,
                               userId, pc, tx>>

\* Mutant: the edit sends the create form's row, current_quantity: 0 included.
handleSubmitEdit_WritesQuantity(c, id, minimumText) ==
    LET minimum_quantity == StoredQuantity(parseFloat(minimumText))
    IN  /\ pc[c] = "idle"
        /\ IF id \notin VisibleProducts(c)
           THEN Refuse(c, "ok")
           ELSE IF MinimumStatus(minimum_quantity) # "ok"
           THEN Refuse(c, MinimumStatus(minimum_quantity))
           ELSE /\ products' = [products EXCEPT
                                   ![id] = [current_quantity |-> 0,
                                            minimum_quantity |-> minimum_quantity]]
                /\ Responded(c, "ok")
                /\ UNCHANGED <<nextProductId, stock_movements, nextMovementId,
                               session, userId, pc, tx>>

\* handleSubmit with editingProduct set: the update names the form's columns
\* only, and changes the rows it matches.
handleSubmitEdit(c, id, minimumText) ==
    LET minimum_quantity == StoredQuantity(parseFloat(minimumText))
    IN  /\ pc[c] = "idle"
        /\ IF id \notin VisibleProducts(c)
           THEN Refuse(c, "ok")
           ELSE IF MinimumStatus(minimum_quantity) # "ok"
           THEN Refuse(c, MinimumStatus(minimum_quantity))
           ELSE /\ products' = [products EXCEPT
                                   ![id].minimum_quantity = minimum_quantity]
                /\ Responded(c, "ok")
                /\ UNCHANGED <<nextProductId, stock_movements, nextMovementId,
                               session, userId, pc, tx>>

\* ON DELETE CASCADE of stock_movements.product_id.
CascadeDelete(movements, id) ==
    SelectSeq(movements, LAMBDA m : m.product_id # id)

Without(f, id) == [k \in DOMAIN f \ {id} |-> f[k]]

handleDelete(c, id) ==
    /\ pc[c] = "idle"
    /\ IF id \notin VisibleProducts(c)
       THEN Refuse(c, "ok")
       ELSE /\ ~KeyShareLocked(id)
            /\ products' = Without(products, id)
            /\ stock_movements' = CascadeDelete(stock_movements, id)
            /\ Responded(c, "ok")
            /\ UNCHANGED <<nextProductId, nextMovementId, session, userId,
                           pc, tx>>

\* Product ids a page can hold: those of rows that have existed.
KnownProductIds == 1 .. (nextProductId - 1)

MovementIds == 1 .. MaxMovements

(* ---------------------- low-stock classification ----------------------- *)

\* Mutant: the badge compares with < and leaves a product at its minimum out.
isLowStock_Strict(product) ==
    product.current_quantity < product.minimum_quantity

\* The status badge of a row of the Stock page's table.
isLowStock(product) ==
    product.current_quantity <= product.minimum_quantity

\* The Stock page's alert list, over the rows the page holds (id -> row).
getLowStockProducts(rows) ==
    {id \in DOMAIN rows :
        rows[id].current_quantity <= rows[id].minimum_quantity}

\* The Dashboard's low-stock count, over the rows its second query returned.
lowStockProducts(rows) ==
    Cardinality({id \in DOMAIN rows :
                    rows[id].current_quantity <= rows[id].minimum_quantity})

(* --------------------------- the categories --------------------------- *)

\* Mutant: category_id declared ON DELETE CASCADE.
DeleteCategoryOutcome_Cascade(prods, movements, refs, id) ==
    LET gone == {p \in DOMAIN prods : refs[p] = id}
    IN  [products |-> [p \in DOMAIN prods \ gone |-> prods[p]],
         stock_movements |->
             SelectSeq(movements, LAMBDA m : m.product_id \notin gone),
         category_id |->
             [p \in DOMAIN refs |-> IF refs[p] = id THEN NoCategory ELSE refs[p]]]

\* What the delete of a categories row leaves of the products: category_id
\* REFERENCES public.categories(id) ON DELETE SET NULL.
DeleteCategoryOutcome(prods, movements, refs, id) ==
    [products |-> prods,
     stock_movements |-> movements,
     category_id |->
         [p \in DOMAIN refs |-> IF refs[p] = id THEN NoCategory ELSE refs[p]]]

\* DELETE FROM categories WHERE id = ..., through the table API (no page
\* deletes a category). The update of the referencing rows does not wait for
\* the key-share lock of an open movement statement.
RestDeleteCategory(c, id) ==
    /\ pc[c] = "idle"
    /\ IF session[c] = NoSession \/ id \notin categories
       THEN /\ Refuse(c, "ok")
            /\ UNCHANGED catalogVars
       ELSE LET out == DeleteCategoryOutcome(products, stock_movements,
                                             category_id, id)
            IN  /\ categories' = categories \ {id}
                /\ products' = out.products
                /\ stock_movements' = out.stock_movements
                /\ category_id' = out.category_id
                /\ Responded(c, "ok")
                /\ UNCHANGED <<nextProductId, nextMovementId, session, userId,
                               pc, tx>>

\* The category the product form sends (formData.category_id || null) has
\* to be a row of categories.
CategoryExists(category) == category = NoCategory \/ category \in categories

\* Products.handleSubmit for a new product, with the category of the form.
CreateInCategory(c, minimumText, category) ==
    IF /\ session[c] # NoSession
       /\ MinimumStatus(StoredQuantity(parseFloat(minimumText))) = "ok"
       /\ ~CategoryExists(category)
    THEN /\ pc[c] = "idle"
         /\ Refuse(c, ForeignKeyViolation)
         /\ UNCHANGED catalogVars
    ELSE /\ handleSubmitCreate(c, minimumText)
         /\ category_id' =
                IF nextProductId' # nextProductId
                THEN [category_id EXCEPT ![nextProductId] = category]
                ELSE category_id
         /\ UNCHANGED categories

\* Products.handleSubmit for an edited product, with the category of the form.
EditInCategory(c, id, minimumText, category) ==
    IF /\ id \in VisibleProducts(c)
       /\ MinimumStatus(StoredQuantity(parseFloat(minimumText))) = "ok"
       /\ ~CategoryExists(category)
    THEN /\ pc[c] = "idle"
         /\ Refuse(c, ForeignKeyViolation)
         /\ UNCHANGED catalogVars
    ELSE /\ handleSubmitEdit(c, id, minimumText)
         /\ category_id' =
                IF id \in VisibleProducts(c) /\ response' = "ok"
                THEN [category_id EXCEPT ![id] = category]
                ELSE category_id
         /\ UNCHANGED categories

\* Products.handleDelete: the row goes with its category_id.
DeleteInCategory(c, id) ==
    /\ handleDelete(c, id)
    /\ category_id' =
           IF id \in DOMAIN products'
           THEN category_id
           ELSE [category_id EXCEPT ![id] = NoCategory]
    /\ UNCHANGED categories

(* ------------------------ what a query returns ------------------------ *)

\* SELECT on public.products (policy TO authenticated USING (true)).
SelectProducts(c) == [id \in VisibleProducts(c) |-> products[id]]

\* SELECT on public.stock_movements (policy TO authenticated USING (true)).
SelectMovements(c) == IF session[c] = NoSession THEN <<>> ELSE stock_movements

\* SELECT on public.categories (policy TO authenticated USING (true)).
SelectCategories(c) == IF session[c] = NoSession THEN {} ELSE categories

\* The summed quantity of the movements of one type.
RECURSIVE Total(_, _)
Total(movements, movement_type) ==
    IF movements = <<>>
    THEN 0
    ELSE (IF Head(movements).movement_type = movement_type
          THEN Head(movements).quantity ELSE 0)
         + Total(Tail(movements), movement_type)

\* Mutant: the count queries sum the quantity column.
CountMovements_SumsQuantity(movements, movement_type) ==
    Total(movements, movement_type)

\* select("*", {count: "exact", head: true}).eq("movement_type", ...)
CountMovements(movements, movement_type) ==
    Cardinality({i \in DOMAIN movements :
                    movements[i].movement_type = movement_type})

\* .order("created_at", {ascending: false}).limit(50): the rows by the time
\* their statements began (the order of their ids), latest first.
HistoryLimit == 50

\* Mutant: the query without .limit(50).
History_Unlimited(movements) ==
    LET n == Len(movements)
        Rank(m) == 1 + Cardinality({k \in 1 .. n : movements[k].id > m.id})
    IN  [i \in 1 .. n |->
            movements[CHOOSE k \in 1 .. n : Rank(movements[k]) = i]]

History(movements) ==
    LET n == Len(movements)
        Rank(m) == 1 + Cardinality({k \in 1 .. n : movements[k].id > m.id})
        ordered == [i \in 1 .. n |->
                       movements[CHOOSE k \in 1 .. n : Rank(movements[k]) = i]]
    IN  SubSeq(ordered, 1, IF n < HistoryLimit THEN n ELSE HistoryLimit)

(* ------------------------------ the pages ----------------------------- *)

\* The browser whose pages are followed, and the one that is seen only
\* through what it sends to the tables.
Visitor == "c2"
Worker == "c1"

\* What a page's useEffect calls when it mounts.
Effects(route) ==
    CASE route = "/" -> {"checkAuth"}
      [] route = "/dashboard" -> {"checkAuth", "loadDashboardData"}
      [] route = "/products" -> {"checkAuth", "loadCategories", "loadProducts"}
      [] route = "/stock" -> {"checkAuth", "loadProducts", "loadMovements"}
      [] route = "/auth" -> {}

\* navigate(route): the page shown is unmounted with its state and its
\* outstanding calls, and the page of the route mounts.
Mount(c, route) ==
    /\ location' = [location EXCEPT ![c] = route]
    /\ pending' = [pending EXCEPT ![c] = Effects(route)]
    /\ pageProducts' = [pageProducts EXCEPT ![c] = <<>>]
    /\ pageMovements' = [pageMovements EXCEPT ![c] = <<>>]
    /\ pageCategories' = [pageCategories EXCEPT ![c] = {}]
    /\ counted' = [counted EXCEPT ![c] = <<>>]
    /\ stats' = [stats EXCEPT ![c] = NoStats]
    /\ userId' = [userId EXCEPT ![c] = EmptyUserId]

\* A call of the mounted page is answered.
Answered(c, call) == pending' = [pending EXCEPT ![c] = @ \ {call}]

\* The user opens a route, by a link of a page or by its address.
Open(c, route) ==
    /\ Mount(c, route)
    /\ UNCHANGED <<products, nextProductId, stock_movements, nextMovementId,
                   session, pc, tx, response, catalogVars>>

\* navigate("/auth") of a checkAuth that finds no session.
Redirect(c) ==
    /\ Mount(c, "/auth")
    /\ UNCHANGED <<products, nextProductId, stock_movements, nextMovementId,
                   session, pc, tx, response, catalogVars>>

\* Index.checkAuth
Index_checkAuth(c) ==
    /\ location[c] = "/"
    /\ "checkAuth" \in pending[c]
    /\ IF session[c] # NoSession
       THEN Open(c, "/dashboard")
       ELSE Redirect(c)

\* Dashboard.checkAuth (the profile it then reads is not followed).
Dashboard_checkAuth(c) ==
    /\ location[c] = "/dashboard"
    /\ "checkAuth" \in pending[c]
    /\ IF session[c] = NoSession
       THEN Redirect(c)
       ELSE /\ Answered(c, "checkAuth")
            /\ UNCHANGED <<location, pageProducts, pageMovements,
                           pageCategories, counted, stats, ledgerVars,
                           catalogVars>>

\* Products.checkAuth
Products_checkAuth(c) ==
    /\ location[c] = "/products"
    /\ "checkAuth" \in pending[c]
    /\ IF session[c] = NoSession
       THEN Redirect(c)
       ELSE /\ Answered(c, "checkAuth")
            /\ UNCHANGED <<location, pageProducts, pageMovements,
                           pageCategories, counted, stats, ledgerVars,
                           catalogVars>>

\* Stock.checkAuth, with the branch that finds no session.
Stock_checkAuth(c) ==
    /\ location[c] = "/stock"
    /\ "checkAuth" \in pending[c]
    /\ IF session[c] = NoSession
       THEN Redirect(c)
       ELSE /\ checkAuth(c)
            /\ Answered(c, "checkAuth")
            /\ UNCHANGED <<location, pageProducts, pageMovements,
                           pageCategories, counted, stats, catalogVars>>

\* loadProducts of the Products and of the Stock page.
loadProducts(c) ==
    /\ location[c] \in {"/products", "/stock"}
    /\ "loadProducts" \in pending[c]
    /\ pageProducts' = [pageProducts EXCEPT ![c] = SelectProducts(c)]
    /\ Answered(c, "loadProducts")
    /\ UNCHANGED <<location, pageMovements, pageCategories, counted, stats,
                   ledgerVars, catalogVars>>

\* Stock.loadMovements (the names it reads from profiles are not followed).
loadMovements(c) ==
    /\ location[c] = "/stock"
    /\ "loadMovements" \in pending[c]
    /\ pageMovements' = [pageMovements EXCEPT ![c] = History(SelectMovements(c))]
    /\ Answered(c, "loadMovements")
    /\ UNCHANGED <<location, pageProducts, pageCategories, counted, stats,
                   ledgerVars, catalogVars>>

\* Products.loadCategories
loadCategories(c) ==
    /\ location[c] = "/products"
    /\ "loadCategories" \in pending[c]
    /\ pageCategories' = [pageCategories EXCEPT ![c] = SelectCategories(c)]
    /\ Answered(c, "loadCategories")
    /\ UNCHANGED <<location, pageProducts, pageMovements, counted, stats,
                   ledgerVars, catalogVars>>

\* One query of Dashboard.loadDashboardData is answered; setStats follows
\* the fourth.
loadDashboardData(c) ==
    /\ location[c] = "/dashboard"
    /\ "loadDashboardData" \in pending[c]
    /\ LET k == Len(counted[c]) + 1
           result ==
               CASE k = 1 -> Cardinality(DOMAIN SelectProducts(c))
                 [] k = 2 -> lowStockProducts(SelectProducts(c))
                 [] k = 3 -> CountMovements(SelectMovements(c), "entrada")
                 [] k = 4 -> CountMovements(SelectMovements(c), "saida")
           got == Append(counted[c], result)
       IN  IF k < 4
           THEN /\ counted' = [counted EXCEPT ![c] = got]
                /\ UNCHANGED <<pending, stats>>
           ELSE /\ stats' = [stats EXCEPT ![c] =
                                [totalProducts |-> got[1],
                                 lowStockProducts |-> got[2],
                                 totalEntries |-> got[3],
                                 totalExits |-> got[4]]]
                /\ counted' = [counted EXCEPT ![c] = <<>>]
                /\ Answered(c, "loadDashboardData")
    /\ UNCHANGED <<location, pageProducts, pageMovements, pageCategories,
                   ledgerVars, catalogVars>>

\* Dashboard.handleLogout
handleLogout(c) ==
    /\ location[c] = "/dashboard"
    /\ session' = [session EXCEPT ![c] = NoSession]
    /\ Mount(c, "/auth")
    /\ UNCHANGED <<products, nextProductId, stock_movements, nextMovementId,
                   pc, tx, response, catalogVars>>

\* Stock.handleSubmit up to its insert, on the mounted page.
Stock_handleSubmit(c, product_id, movement_type, quantityText) ==
    /\ location[c] = "/stock"
    /\ handleSubmit(c, product_id, movement_type, quantityText)
    /\ UNCHANGED <<catalogVars, pageVars>>

\* The statement ends and Stock.handleSubmit goes on: after a success it
\* calls loadProducts and loadMovements, which reach a page still mounted.
Stock_handleSubmitAnswered(c) ==
    /\ Commit(c)
    /\ IF response' = "ok" /\ location[c] = "/stock"
       THEN pending' = [pending EXCEPT
                           ![c] = @ \cup {"loadProducts", "loadMovements"}]
       ELSE UNCHANGED pending
    /\ UNCHANGED <<location, pageProducts, pageMovements, pageCategories,
                   counted, stats, catalogVars>>

\* loadProducts() after a success toast of the Products page.
Reload(c) ==
    /\ IF response' = "ok"
       THEN pending' = [pending EXCEPT ![c] = @ \cup {"loadProducts"}]
       ELSE UNCHANGED pending
    /\ UNCHANGED <<location, pageProducts, pageMovements, pageCategories,
                   counted, stats, catalogVars>>

\* Products.handleSubmit (a new product) and Products.handleDelete on the
\* mounted page.
Products_handleSubmitCreate(c, minimumText) ==
    /\ location[c] = "/products"
    /\ handleSubmitCreate(c, minimumText)
    /\ Reload(c)

Products_handleDelete(c, id) ==
    /\ location[c] = "/products"
    /\ handleDelete(c, id)
    /\ Reload(c)

(* --------------------------- specification ---------------------------- *)

\* The ledger seen from the tables: what the pages hold is left out, and a
\* product keeps the category it has.
Next ==
    \/ /\ \E c \in Clients : checkAuth(c)
       /\ UNCHANGED <<catalogVars, pageVars>>
    \/ /\ \E c \in Clients, p \in KnownProductIds, t \in MovementTypes,
             s \in QuantityTexts :
             handleSubmit(c, p, t, s)
       /\ UNCHANGED <<catalogVars, pageVars>>
    \/ /\ \E c \in Clients : handleSubmit(c, NoProductSelected, "entrada", "15")
       /\ UNCHANGED <<catalogVars, pageVars>>
    \/ /\ \E c \in Clients, p \in KnownProductIds, t \in MovementTypes,
             row \in ApiRows :
             RestInsert(c, p, t, row.quantity, row.responsible_user_id)
       /\ UNCHANGED <<catalogVars, pageVars>>
    \/ /\ \E c \in Clients, id \in MovementIds : RestDeleteMovement(c, id)
       /\ UNCHANGED <<catalogVars, pageVars>>
    \/ /\ \E c \in Clients, id \in MovementIds, q \in ApiUpdateQuantities :
             RestUpdateMovement(c, id, q)
       /\ UNCHANGED <<catalogVars, pageVars>>
    \/ /\ \E c \in Clients : Commit(c)
       /\ UNCHANGED <<catalogVars, pageVars>>
    \/ /\ \E c \in Clients, s \in MinimumTexts : handleSubmitCreate(c, s)
       /\ UNCHANGED <<catalogVars, pageVars>>
    \/ /\ \E c \in Clients, p \in KnownProductIds, s \in MinimumTexts :
             handleSubmitEdit(c, p, s)
       /\ UNCHANGED <<catalogVars, pageVars>>
    \/ /\ \E c \in Clients, p \in KnownProductIds : handleDelete(c, p)
       /\ UNCHANGED <<catalogVars, pageVars>>

Spec == Init /\ [][Next]_vars

(* ------------------- a catalogue built from nothing ------------------- *)

\* The browser that builds it.
FreshClient == "c1"

\* The products table once every seeded row has been deleted; the ids of
\* ProductIds then name the rows the Products page creates.
FreshInit ==
    /\ categories = CategoryIds
    /\ category_id = [id \in ProductIds |-> NoCategory]
    /\ PagesClosed({})
    /\ products = <<>>
    /\ nextProductId = 1
    /\ stock_movements = <<>>
    /\ nextMovementId = 1
    /\ session = InitialSession
    /\ userId = [c \in Clients |-> EmptyUserId]
    /\ pc = [c \in Clients |-> "idle"]
    /\ tx = [c \in Clients |-> NoTx]
    /\ response = NoResponse

\* Stock.handleSubmit while no other statement is open: the insert, the
\* trigger's UPDATE and the commit (or the rollback) happen in one step.
SerialStatement(c, product_id, movement_type, quantityText, most) ==
    /\ \A k \in Clients : pc[k] = "idle"
    /\ IF product_id = NoProductSelected \/ quantityText = ""
       THEN Refuse(c, ToastRequired)
       ELSE IF parseFloat(quantityText) <= 0
       THEN Refuse(c, ToastQuantity)
       ELSE LET q == parseFloat(quantityText)
                status == InsertStatus(c, product_id, movement_type, q, userId[c])
            IN  IF status # "ok"
                THEN Refuse(c, status)
                ELSE LET new == [id |-> nextMovementId,
                                 product_id |-> product_id,
                                 movement_type |-> movement_type,
                                 quantity |-> StoredQuantity(q),
                                 responsible_user_id |-> userId[c],
                                 seen |-> Snapshot(product_id)]
                         out == StatementOutcome(products, stock_movements, new)
                     IN  /\ nextMovementId <= most
                         /\ products' = out.products
                         /\ stock_movements' = out.stock_movements
                         /\ nextMovementId' = nextMovementId + 1
                         /\ Responded(c, out.status)
                         /\ UNCHANGED <<nextProductId, session, userId, pc, tx>>

handleSubmitSerial(c, product_id, movement_type, quantityText) ==
    SerialStatement(c, product_id, movement_type, quantityText, MaxReplay)

FreshNext ==
    \/ /\ checkAuth(FreshClient)
       /\ UNCHANGED <<catalogVars, pageVars>>
    \/ /\ \E s \in FreshMinimumTexts : handleSubmitCreate(FreshClient, s)
       /\ UNCHANGED <<catalogVars, pageVars>>
    \/ /\ \E p \in KnownProductIds, t \in MovementTypes, s \in FreshQuantityTexts :
             handleSubmitSerial(FreshClient, p, t, s)
       /\ UNCHANGED <<catalogVars, pageVars>>

FreshSpec == FreshInit /\ [][FreshNext]_vars

(* ------------------- a browser seen with its pages -------------------- *)

\* The Visitor has a session or has none; the Worker has one, and a Stock
\* page that has read it.
PageInit ==
    /\ categories = CategoryIds
    /\ category_id = [id \in ProductIds |->
                         IF id \in DOMAIN SeedCategory
                         THEN SeedCategory[id] ELSE NoCategory]
    /\ PagesClosed({Visitor})
    /\ products = SeedProducts
    /\ nextProductId = 2
    /\ stock_movements = <<>>
    /\ nextMovementId = 1
    /\ session \in {InitialSession,
                     [InitialSession EXCEPT ![Visitor] = NoSession]}
    /\ userId = [c \in Clients |->
                    IF c = Worker THEN session[c] ELSE EmptyUserId]
    /\ pc = [c \in Clients |-> "idle"]
    /\ tx = [c \in Clients |-> NoTx]
    /\ response = NoResponse

\* What the Visitor does with the page it has open: it follows every route,
\* withdraws 15.00 of a product its Stock page lists, and creates and deletes
\* products.
VisitorNext(c) ==
    \/ \E route \in Routes : Open(c, route)
    \/ Index_checkAuth(c)
    \/ Dashboard_checkAuth(c)
    \/ Products_checkAuth(c)
    \/ Stock_checkAuth(c)
    \/ loadProducts(c)
    \/ loadMovements(c)
    \/ loadCategories(c)
    \/ loadDashboardData(c)
    \/ handleLogout(c)
    \/ \E p \in DOMAIN pageProducts[c] \cup {NoProductSelected} :
          Stock_handleSubmit(c, p, "saida", "15")
    \/ Stock_handleSubmitAnswered(c)
    \/ Products_handleSubmitCreate(c, "10")
    \/ \E p \in DOMAIN pageProducts[c] : Products_handleDelete(c, p)

\* What the Worker sends to the tables.
WorkerNext(c) ==
    \/ /\ \E p \in KnownProductIds, t \in MovementTypes :
             handleSubmit(c, p, t, "15")
       /\ UNCHANGED <<catalogVars, pageVars>>
    \/ /\ Commit(c)
       /\ UNCHANGED <<catalogVars, pageVars>>
    \/ /\ handleSubmitCreate(c, "10")
       /\ UNCHANGED <<catalogVars, pageVars>>
    \/ /\ \E p \in KnownProductIds : handleDelete(c, p)
       /\ UNCHANGED <<catalogVars, pageVars>>

PageNext == VisitorNext(Visitor) \/ WorkerNext(Worker)

PageSpec == PageInit /\ [][PageNext]_vars

(* -------------------- the catalogue with categories ------------------- *)

\* Categories are deleted while products are created in them, moved between
\* them and deleted, and while movements of 15.00 are stored.
CatalogNext ==
    \/ /\ \E c \in Clients, id \in CategoryIds : RestDeleteCategory(c, id)
       /\ UNCHANGED pageVars
    \/ /\ \E c \in Clients, category \in CategoryIds \cup {NoCategory} :
             CreateInCategory(c, "10", category)
       /\ UNCHANGED pageVars
    \/ /\ \E c \in Clients, p \in KnownProductIds,
             category \in CategoryIds \cup {NoCategory} :
             EditInCategory(c, p, "10", category)
       /\ UNCHANGED pageVars
    \/ /\ \E c \in Clients, p \in KnownProductIds : DeleteInCategory(c, p)
       /\ UNCHANGED pageVars
    \/ /\ \E c \in Clients : checkAuth(c)
       /\ UNCHANGED <<catalogVars, pageVars>>
    \/ /\ \E c \in Clients, p \in KnownProductIds, t \in MovementTypes :
             handleSubmit(c, p, t, "15")
       /\ UNCHANGED <<catalogVars, pageVars>>
    \/ /\ \E c \in Clients : Commit(c)
       /\ UNCHANGED <<catalogVars, pageVars>>

CatalogSpec == Init /\ [][CatalogNext]_vars

\* The movement form alone: the Stock pages of the clients submit it, the
\* table answers, and the one product they list may be deleted meanwhile.
FormNext ==
    \/ /\ \E c \in Clients : checkAuth(c)
       /\ UNCHANGED <<catalogVars, pageVars>>
    \/ /\ \E c \in Clients, p \in KnownProductIds \cup {NoProductSelected},
             t \in MovementTypes, s \in QuantityTexts :
             handleSubmit(c, p, t, s)
       /\ UNCHANGED <<catalogVars, pageVars>>
    \/ /\ \E c \in Clients : Commit(c)
       /\ UNCHANGED <<catalogVars, pageVars>>
    \/ /\ \E c \in Clients, p \in KnownProductIds : handleDelete(c, p)
       /\ UNCHANGED <<catalogVars, pageVars>>

FormSpec == Init /\ [][FormNext]_vars

\* The history of the Stock page: the Visitor's page loads it and submits
\* movements while the Worker's does, so that rows are stored in another
\* order than they were created; after that the Worker records movements one
\* after another until the table holds more than the history shows.
HistoryInit ==
    /\ PageInit
    /\ session = InitialSession

HistoryNext ==
    \/ Open(Visitor, "/stock")
    \/ Stock_checkAuth(Visitor)
    \/ loadProducts(Visitor)
    \/ loadMovements(Visitor)
    \/ \E p \in DOMAIN pageProducts[Visitor] :
          Stock_handleSubmit(Visitor, p, "saida", "15")
    \/ Stock_handleSubmitAnswered(Visitor)
    \/ /\ handleSubmit(Worker, 1, "saida", "15")
       /\ UNCHANGED <<catalogVars, pageVars>>
    \/ /\ Commit(Worker)
       /\ UNCHANGED <<catalogVars, pageVars>>
    \/ /\ nextMovementId > MaxMovements
       /\ SerialStatement(Worker, 1, "saida", "15", MaxHistory)
       /\ UNCHANGED <<catalogVars, pageVars>>

HistorySpec == HistoryInit /\ [][HistoryNext]_vars

(* ------------------------------ properties ---------------------------- *)

\* The movements stored for a product, in the order they were committed.
MovementsOf(movements, id) ==
    SelectSeq(movements, LAMBDA m : m.product_id = id)

\* One step of the balance: an entry adds, an exit subtracts and stops at 0.
BalanceStep(balance, m) ==
    IF m.movement_type = "entrada"
    THEN balance + m.quantity
    ELSE IF balance - m.quantity > 0 THEN balance - m.quantity ELSE 0

RECURSIVE ClampedFold(_, _)
ClampedFold(balance, movements) ==
    IF movements = <<>>
    THEN balance
    ELSE ClampedFold(BalanceStep(balance, Head(movements)), Tail(movements))

Front(seq) == SubSeq(seq, 1, Len(seq) - 1)

\* The quantity a product row was inserted with: the seed's, or the 0 the
\* Products page sends.
OpeningQuantity(id) ==
    IF id \in DOMAIN SeedProducts THEN SeedProducts[id].current_quantity ELSE 0

\* C1: in every reachable state every product's current_quantity is >= 0.
C1_QuantityNonNegative ==
    \A id \in DOMAIN products : products[id].current_quantity >= 0

\* The seeded product deleted, a product created, and an exit stored on it
\* that found less than it took.
C1_Witness ==
    /\ 1 \notin DOMAIN products
    /\ 2 \in DOMAIN products
    /\ products[2].current_quantity = 0
    /\ \E i \in DOMAIN stock_movements :
          /\ stock_movements[i].product_id = 2
          /\ stock_movements[i].movement_type = "saida"

\* C2: a product created with current_quantity = 0 holds the left fold of its
\* accepted movements, +quantity for an entry and max(Q - quantity, 0) for an
\* exit, clamped at every step.
C2_FreshProductFold ==
    \A id \in DOMAIN products \ DOMAIN SeedProducts :
        products[id].current_quantity =
            ClampedFold(0, MovementsOf(stock_movements, id))

\* A created product with two movements whose balance is not
\* max(entries - exits, 0).
C2_Witness ==
    \E id \in DOMAIN products \ DOMAIN SeedProducts :
        LET own == MovementsOf(stock_movements, id)
        IN  /\ Len(own) = 2
            /\ products[id].current_quantity #
                   GREATEST(Total(own, "entrada") - Total(own, "saida"), 0)

\* C3 as stated: every product, the seeded ones included, holds the clamped
\* balance of its stored movements alone.
C3_BalanceOfMovementsOnly ==
    \A id \in DOMAIN products :
        products[id].current_quantity =
            ClampedFold(0, MovementsOf(stock_movements, id))

\* C3, amended: every product holds the clamped step-wise balance of its
\* stored movements, taken in the order they were applied and starting from
\* the quantity the row was inserted with.
C3_BalanceFromOpening ==
    \A id \in DOMAIN products :
        products[id].current_quantity =
            ClampedFold(OpeningQuantity(id), MovementsOf(stock_movements, id))

\* The seeded product with two movements stored, the second an entry.
C3_Witness ==
    \E id \in DOMAIN products \cap DOMAIN SeedProducts :
        LET own == MovementsOf(stock_movements, id)
        IN  /\ Len(own) = 2
            /\ own[2].movement_type = "entrada"
            /\ products[id].current_quantity # OpeningQuantity(id)

\* Texts of the quantity field that the column stores as a positive value.
StorableTexts ==
    {s \in QuantityTexts : s # "" /\ StoredQuantity(parseFloat(s)) > 0}

\* C4: an exit larger than the product's current_quantity is sent on by the
\* page and inserted, and the step that ends its statement commits it: the
\* row is stored and the balance is 0.
C4_OverdrawAccepted ==
    [][ \A c \in Clients :
          /\ ( /\ pc[c] = "idle"
               /\ pc'[c] # "inserted"
               /\ userId[c] = session[c] )
             => \A id \in DOMAIN products, s \in StorableTexts :
                   StoredQuantity(parseFloat(s)) > products[id].current_quantity
                   => ~handleSubmit(c, id, "saida", s)
          /\ ( /\ pc[c] = "inserted"
               /\ pc'[c] = "idle"
               /\ tx[c].movement_type = "saida"
               /\ tx[c].quantity > products[tx[c].product_id].current_quantity )
             => /\ response' = "ok"
                /\ products'[tx[c].product_id].current_quantity = 0
                /\ stock_movements' =
                       Append(stock_movements, MovementRow(tx[c]))
      ]_vars

\* The last stored movement is an exit that found a positive balance smaller
\* than its quantity, and the balance is now 0.
C4_Witness ==
    /\ response = "ok"
    /\ stock_movements # <<>>
    /\ LET last == stock_movements[Len(stock_movements)]
           before == ClampedFold(OpeningQuantity(last.product_id),
                                 Front(MovementsOf(stock_movements, last.product_id)))
       IN  /\ last.movement_type = "saida"
           /\ last.product_id \in DOMAIN products
           /\ before > 0
           /\ last.quantity > before
           /\ products[last.product_id].current_quantity = 0

\* A step that stores nothing: no statement is begun or ended, neither table
\* changes, and the caller is answered with an error.
Rejected ==
    /\ pc' = pc
    /\ tx' = tx
    /\ stock_movements' = stock_movements
    /\ products' = products
    /\ response' \notin {"ok", NoResponse}

\* Texts of the quantity field that parse to zero or less.
NonPositiveTexts == {s \in QuantityTexts : s # "" /\ parseFloat(s) <= 0}

\* C5: a movement submitted with quantity <= 0, of either type, through the
\* page or to the table directly, is rejected: every step is a rejection or
\* is no such submission.
C5_NonPositiveRejected ==
    [][ \/ Rejected
        \/ \A c \in Clients, id \in ProductIds, t \in MovementTypes :
              /\ \A s \in NonPositiveTexts : ~handleSubmit(c, id, t, s)
              /\ \A row \in ApiRows :
                    row.quantity <= 0
                    => ~RestInsert(c, id, t, row.quantity, row.responsible_user_id)
      ]_vars

\* The Stock page has refused a quantity of zero or less, after movements
\* were stored.
C5_Witness ==
    /\ response = ToastQuantity
    /\ stock_movements # <<>>

\* Every row stored or in flight carries the id of the caller's session.
Attributed ==
    /\ \A i \in DOMAIN stock_movements :
          \E c \in Clients :
              stock_movements[i].responsible_user_id = session[c]
    /\ \A c \in Clients :
          pc[c] = "inserted" => tx[c].responsible_user_id = session[c]

\* C6: every stored movement carries its inserter's id, and an insert whose
\* responsible_user_id is not the caller's id (the page's empty userId
\* included) is rejected.
C6_OwnIdentityOnly ==
    [][ /\ Attributed'
        /\ \/ Rejected
           \/ \A c \in Clients, id \in ProductIds, t \in MovementTypes :
                 /\ userId[c] # session[c]
                    => \A s \in QuantityTexts : ~handleSubmit(c, id, t, s)
                 /\ \A row \in ApiRows :
                       row.responsible_user_id # session[c]
                       => ~RestInsert(c, id, t, row.quantity,
                                      row.responsible_user_id)
      ]_vars

\* An insert in another user's name has been refused by the policy while a
\* page still holds the empty userId, after movements were stored.
C6_Witness ==
    /\ response = PolicyViolation
    /\ \E c \in Clients : userId[c] = EmptyUserId
    /\ stock_movements # <<>>

\* C7: a step stores a movement of a product exactly when it applies that
\* movement's effect to the product's current_quantity; a failed quantity
\* update leaves neither.
C7_Atomic ==
    [][ \/ /\ stock_movements' = stock_movements
           /\ \A id \in DOMAIN products \cap DOMAIN products' :
                 products'[id].current_quantity = products[id].current_quantity
        \/ \A id \in DOMAIN products \cap DOMAIN products' :
              LET before == MovementsOf(stock_movements, id)
                  after == MovementsOf(stock_movements', id)
              IN  IF after = before
                  THEN products'[id].current_quantity =
                           products[id].current_quantity
                  ELSE /\ Front(after) = before
                       /\ products'[id].current_quantity =
                              BalanceStep(products[id].current_quantity,
                                          after[Len(after)])
      ]_vars

\* The quantity update of a statement has failed and the statement is over.
C7_Witness ==
    /\ response = NumericOverflow
    /\ \A c \in Clients : pc[c] = "idle"
    /\ \A id \in DOMAIN products :
          products[id].current_quantity =
              ClampedFold(OpeningQuantity(id), MovementsOf(stock_movements, id))

\* The balance of a product is the clamped fold of its stored movements in
\* some order.
SomeSerialOrder(prods, movements, id) ==
    LET own == MovementsOf(movements, id)
        n == Len(own)
    IN  \E f \in Permutations(1 .. n) :
            prods[id].current_quantity =
                ClampedFold(OpeningQuantity(id), [i \in 1 .. n |-> own[f[i]]])

\* C8: movements of one product submitted concurrently serialize: a statement
\* that is answered "ok" has its row stored, and every balance is the clamped
\* fold of the product's stored movements in some serial order.
C8_NoLostUpdate ==
    [][ (products' # products \/ stock_movements' # stock_movements)
        => /\ \A id \in DOMAIN products' :
                 SomeSerialOrder(products', stock_movements', id)
           /\ \A c \in Clients :
                 (pc[c] = "inserted" /\ pc'[c] = "idle" /\ response' = "ok")
                 => stock_movements' =
                        Append(stock_movements, MovementRow(tx[c]))
      ]_vars

\* The seeded product (20.00) after two exits of 15.00 whose statements
\* overlapped (the row inserted second was committed first): both rows are
\* there and the balance is 0.
C8_Witness ==
    /\ Len(stock_movements) = 2
    /\ stock_movements[1].id = 2
    /\ stock_movements[2].id = 1
    /\ \A i \in 1 .. 2 :
          /\ stock_movements[i].product_id = 1
          /\ stock_movements[i].movement_type = "saida"
          /\ stock_movements[i].quantity = 1500
    /\ 1 \in DOMAIN products
    /\ products[1].current_quantity = 0

Range(seq) == {seq[i] : i \in DOMAIN seq}

\* C9: two open statements on different products leave the same balances and
\* the same stored movements whichever of them ends first.
C9_Independent ==
    \A c1, c2 \in Clients :
        ( /\ c1 # c2
          /\ pc[c1] = "inserted"
          /\ pc[c2] = "inserted"
          /\ tx[c1].product_id # tx[c2].product_id )
        => LET a == StatementOutcome(products, stock_movements, tx[c1])
               ab == StatementOutcome(a.products, a.stock_movements, tx[c2])
               b == StatementOutcome(products, stock_movements, tx[c2])
               ba == StatementOutcome(b.products, b.stock_movements, tx[c1])
           IN  /\ ab.products = ba.products
               /\ Range(ab.stock_movements) = Range(ba.stock_movements)

\* Two movements of different products are stored, the one inserted second
\* committed first.
C9_Witness ==
    /\ Len(stock_movements) = 2
    /\ stock_movements[1].id = 2
    /\ stock_movements[2].id = 1
    /\ stock_movements[1].product_id # stock_movements[2].product_id
    /\ \A c \in Clients : pc[c] = "idle"

\* C10: in every step each stored movement whose product still exists stays
\* stored with all its fields unchanged, and one whose product is deleted is
\* gone.
C10_AppendOnly ==
    [][ \/ stock_movements' = stock_movements
        \/ \A i \in DOMAIN stock_movements :
              LET m == stock_movements[i]
              IN  IF m.product_id \in DOMAIN products'
                  THEN \E j \in DOMAIN stock_movements' :
                           stock_movements'[j] = m
                  ELSE \A j \in DOMAIN stock_movements' :
                           stock_movements'[j].id # m.id
      ]_vars

\* Of two stored movements, the one of the deleted seeded product is gone and
\* the one of the other product is still there, as it was inserted.
C10_Witness ==
    /\ nextMovementId = 3
    /\ 1 \notin DOMAIN products
    /\ Len(stock_movements) = 1
    /\ stock_movements[1].id = 1
    /\ stock_movements[1].product_id = 2
    /\ 2 \in DOMAIN products
    /\ response = "ok"

\* C11: a product is low-stock exactly when current_quantity <=
\* minimum_quantity, and on one snapshot of the products table the Stock
\* table's badges, the Stock alert list and the Dashboard's count mark the
\* same products.
C11_SamePredicate ==
    /\ \A id \in DOMAIN products :
          isLowStock(products[id])
          <=> ~(products[id].current_quantity > products[id].minimum_quantity)
    /\ getLowStockProducts(products) =
           {id \in DOMAIN products : isLowStock(products[id])}
    /\ lowStockProducts(products) =
           Cardinality(getLowStockProducts(products))

\* One product sits exactly at a positive minimum and is listed, while
\* another is above its minimum and is not.
C11_Witness ==
    /\ \E id \in DOMAIN products :
          /\ products[id].current_quantity = products[id].minimum_quantity
          /\ products[id].current_quantity > 0
          /\ id \in getLowStockProducts(products)
    /\ \E id \in DOMAIN products : id \notin getLowStockProducts(products)
    /\ lowStockProducts(products) = 1

\* The movements of a list are all entries.
OnlyEntries(movements) ==
    \A i \in DOMAIN movements : movements[i].movement_type = "entrada"

\* C12: a product created through the Products page holds 0 and is low-stock
\* whatever its minimum_quantity, as long as it has no movement; with entries
\* only it holds their sum, and it is normal once that sum is above the
\* minimum.
C12_FreshProductLow ==
    \A id \in DOMAIN products :
        LET own == MovementsOf(stock_movements, id)
            entered == Total(own, "entrada")
        IN  /\ own = <<>>
               => /\ products[id].current_quantity = 0
                  /\ isLowStock(products[id])
            /\ OnlyEntries(own)
               => /\ products[id].current_quantity = entered
                  /\ isLowStock(products[id])
                     <=> entered <= products[id].minimum_quantity

\* A product with minimum 10.00 is normal after one entry of 15.00, and one
\* with minimum 0 and no movement is low.
C12_Witness ==
    /\ \E id \in DOMAIN products :
          LET own == MovementsOf(stock_movements, id)
          IN  /\ products[id].minimum_quantity = 1000
              /\ Len(own) = 1
              /\ own[1].movement_type = "entrada"
              /\ own[1].quantity = 1500
              /\ products[id].current_quantity = 1500
              /\ ~isLowStock(products[id])
    /\ \E id \in DOMAIN products :
          /\ products[id].minimum_quantity = 0
          /\ MovementsOf(stock_movements, id) = <<>>
          /\ isLowStock(products[id])

\* Neither table nor the category column changes.
TablesUnchanged ==
    /\ products' = products
    /\ stock_movements' = stock_movements
    /\ categories' = categories
    /\ category_id' = category_id

\* The page of a browser holds no row and no count of rows.
NothingRead(c) ==
    /\ pageProducts[c] = <<>>
    /\ pageMovements[c] = <<>>
    /\ pageCategories[c] = {}
    /\ stats[c] = NoStats
    /\ \A i \in DOMAIN counted[c] : counted[c][i] = 0

Metrics ==
    [totalProducts |-> Cardinality(DOMAIN products),
     lowStockProducts |->
         Cardinality({id \in DOMAIN products :
                         products[id].current_quantity
                             <= products[id].minimum_quantity}),
     totalEntries |->
         Cardinality({i \in DOMAIN stock_movements :
                         stock_movements[i].movement_type = "entrada"}),
     totalExits |->
         Cardinality({i \in DOMAIN stock_movements :
                         stock_movements[i].movement_type = "saida"})]

\* What the Dashboard of a browser has of the four numbers, so far or in its
\* stats, is what the tables have now.
UpToDate(c) ==
    LET now == <<Metrics.totalProducts, Metrics.lowStockProducts,
                 Metrics.totalEntries, Metrics.totalExits>>
    IN  /\ \A i \in DOMAIN counted[c] : counted[c][i] = now[i]
        /\ "loadDashboardData" \notin pending[c] => stats[c] = Metrics

\* C14: the Dashboard of a signed-in browser is up to date when it mounts, and
\* stays so through every step that writes to neither table: a load that no
\* write crosses ends with the four metrics equal to the number of products,
\* of low-stock products, of stored entries and of stored exits.
C14_QuiescentMetrics ==
    [][ \A c \in DOMAIN location :
          (session'[c] # NoSession /\ location'[c] = "/dashboard")
          => /\ location[c] # "/dashboard" => UpToDate(c)'
             /\ ( /\ location[c] = "/dashboard"
                  /\ products' = products
                  /\ stock_movements' = stock_movements
                  /\ UpToDate(c) )
                => UpToDate(c)'
      ]_vars

\* A Dashboard has finished loading and shows 2 products, 1 of them low, 1
\* entry and 1 exit, of 15.00 each, and nothing is in flight.
C14_Witness ==
    /\ location[Visitor] = "/dashboard"
    /\ pending[Visitor] = {}
    /\ \A c \in Clients : pc[c] = "idle"
    /\ stats[Visitor] = Metrics
    /\ stats[Visitor] = [totalProducts |-> 2, lowStockProducts |-> 1,
                         totalEntries |-> 1, totalExits |-> 1]
    /\ \A i \in DOMAIN stock_movements : stock_movements[i].quantity = 1500

\* C15: a step that deletes a category deletes no product: the products that
\* referenced it are there with category_id null, every other product keeps
\* its category, and all keep their quantities and their movements.
C15_CategoryDeleteKeepsProducts ==
    [][ \/ categories' = categories
        \/ /\ DOMAIN products' = DOMAIN products
           /\ stock_movements' = stock_movements
           /\ \A p \in DOMAIN products :
                 /\ products'[p].current_quantity = products[p].current_quantity
                 /\ products'[p].minimum_quantity = products[p].minimum_quantity
                 /\ category_id'[p] =
                        IF category_id[p] \in categories'
                        THEN category_id[p] ELSE NoCategory
      ]_vars

\* The seeded product's category is deleted: the product is there without a
\* category, with the balance and the movement it had, and a product of
\* another category still has its own.
C15_Witness ==
    /\ SeedCategory[1] \notin categories
    /\ 1 \in DOMAIN products
    /\ category_id[1] = NoCategory
    /\ products[1].current_quantity = 500
    /\ Len(MovementsOf(stock_movements, 1)) = 1
    /\ 2 \in DOMAIN products
    /\ category_id[2] = 3
    /\ 3 \in categories

\* Every movement stored or in flight is of a product that exists.
AllReferenced ==
    /\ \A i \in DOMAIN stock_movements :
          stock_movements[i].product_id \in DOMAIN products
    /\ \A c \in Clients :
          pc[c] = "inserted" => tx[c].product_id \in DOMAIN products

\* C16: a movement submitted for a product that does not exist (one deleted
\* since the Stock page listed it) is rejected with nothing stored and no
\* balance changed: a step is a rejection or begins no statement for such a
\* product, and every stored movement is of an existing product.
C16_MissingProductRejected ==
    [][ /\ AllReferenced'
        /\ \/ Rejected
           \/ \A c \in Clients :
                 \/ pc[c] # "idle"
                 \/ pc'[c] = "idle"
                 \/ \A id \in KnownProductIds \ DOMAIN products,
                       t \in MovementTypes :
                       /\ \A s \in QuantityTexts : ~handleSubmit(c, id, t, s)
                       /\ \A row \in ApiRows :
                             ~RestInsert(c, id, t, row.quantity,
                                         row.responsible_user_id)
      ]_vars

\* The Stock page of a browser lists a product that another browser has
\* deleted; a movement submitted for it was refused by the foreign key, and
\* the rows stored are of the product that is left.
C16_Witness ==
    /\ location[Visitor] = "/stock"
    /\ \E id \in DOMAIN pageProducts[Visitor] : id \notin DOMAIN products
    /\ response = ForeignKeyViolation
    /\ stock_movements # <<>>
    /\ \A c \in Clients : pc[c] = "idle"

\* The step ends a movement statement of some client on product id.
Applies(id) ==
    \E c \in Clients :
        /\ pc[c] = "inserted"
        /\ pc'[c] = "idle"
        /\ tx[c].product_id = id

\* C17: the current_quantity of an existing product changes only in the step
\* that applies a movement to it; an edit of the product, also one made while
\* a movement on it is in flight, and every other operation leave it as it is.
C17_OnlyMovementsWriteQuantity ==
    [][ \A id \in DOMAIN products \cap DOMAIN products' :
            \/ products'[id].current_quantity = products[id].current_quantity
            \/ Applies(id)
      ]_vars

\* A movement on the seeded product is in flight, and the product has been
\* edited (its minimum is no longer the seeded one) with its balance still
\* the one the statement began with.
C17_Witness ==
    \E c \in Clients :
        /\ pc[c] = "inserted"
        /\ tx[c].product_id \in DOMAIN SeedProducts \cap DOMAIN products
        /\ products[tx[c].product_id].minimum_quantity
               # SeedProducts[tx[c].product_id].minimum_quantity
        /\ products[tx[c].product_id].current_quantity = tx[c].seen
        /\ response = "ok"

\* C18: the step that applies a movement changes, of the products table, only
\* the current_quantity of the movement's product (updated_at is not part of
\* the model's row): that product keeps its minimum_quantity, which is >= 0,
\* and its category, and every other product keeps every field.
C18_MovementFrame ==
    [][ \A c \in Clients :
            (pc[c] = "inserted" /\ pc'[c] = "idle")
            => /\ DOMAIN products' = DOMAIN products
               /\ category_id' = category_id
               /\ \A id \in DOMAIN products :
                     /\ products'[id].minimum_quantity
                            = products[id].minimum_quantity
                     /\ products'[id].minimum_quantity >= 0
                     /\ id # tx[c].product_id => products'[id] = products[id]
      ]_vars

\* Two products with a minimum and a category exist, and a movement has been
\* applied to the created one, which no longer holds its opening balance.
C18_Witness ==
    /\ DOMAIN products = ProductIds
    /\ \A id \in ProductIds :
          /\ products[id].minimum_quantity > 0
          /\ category_id[id] # NoCategory
    /\ \E i \in DOMAIN stock_movements : stock_movements[i].product_id = 2
    /\ products[2].current_quantity > 0
    /\ products[1] = SeedProducts[1]
    /\ response = "ok"
    /\ \A c \in Clients : pc[c] = "idle"

\* The movements stored for product id, in order, as the replay sees them:
\* type and quantity.
Replayed(id) ==
    LET own == MovementsOf(stock_movements, id)
    IN  [i \in DOMAIN own |-> <<own[i].movement_type, own[i].quantity>>]

\* C19: two products created at 0 to which the same list of movements has
\* been applied in the same order hold the same current_quantity, whatever
\* their other fields and however the two replays interleave; as every state
\* is checked, this holds after every step of the replay.
C19_ReplayDeterministic ==
    \A a, b \in DOMAIN products :
        Replayed(a) = Replayed(b)
        => products[a].current_quantity = products[b].current_quantity

\* Two products with different minimums have each received an exit and then
\* an entry of the same quantities.
C19_Witness ==
    /\ DOMAIN products = ProductIds
    /\ products[1].minimum_quantity # products[2].minimum_quantity
    /\ Replayed(1) = <<<<"saida", 1500>>, <<"entrada", 9000>>>>
    /\ Replayed(2) = Replayed(1)
    /\ products[1].current_quantity = 9000

\* The messages toast.error shows for a movement form.
ErrorToasts == {ToastRequired, ToastQuantity, ToastError}

\* The step shows an error for a submission and stores and changes nothing.
FailedWithMessage ==
    /\ Toast(response') \in ErrorToasts
    /\ stock_movements' = stock_movements
    /\ products' = products

\* The step shows the success toast for the statement of client c, whose row
\* is stored and whose quantity is applied to its product.
StoredWithMessage(c) ==
    /\ Toast(response') = ToastSuccess
    /\ stock_movements' = Append(stock_movements, MovementRow(tx[c]))
    /\ tx[c].product_id \in DOMAIN products'
    /\ products'[tx[c].product_id].current_quantity =
           update_product_quantity(
               products[tx[c].product_id].current_quantity, tx[c])

\* C20: every submission of the movement form ends in exactly one of two
\* ways: an error toast with nothing stored and no balance changed, or the
\* success toast with the movement stored and its quantity applied. The step
\* that answers a statement the table began is one of the two; a step of the
\* form that begins no statement is the first.
C20_OneOfTwoOutcomes ==
    [][ /\ \A c \in Clients :
              (pc[c] = "inserted" /\ pc'[c] = "idle")
              => (FailedWithMessage \/ StoredWithMessage(c))
        /\ \/ pc' # pc
           \/ Rejected /\ FailedWithMessage
           \/ \A c \in Clients,
                 p \in KnownProductIds \cup {NoProductSelected},
                 t \in MovementTypes, s \in QuantityTexts :
                 ~handleSubmit(c, p, t, s)
      ]_vars

\* Both ways have been seen: a movement is stored with the success toast's
\* answer behind it, and the last submission was answered with an error the
\* table raised, which the page shows as its error toast.
C20_Witness ==
    /\ stock_movements # <<>>
    /\ response \in {NumericOverflow, ForeignKeyViolation, InvalidUuid}
    /\ Toast(response) = ToastError
    /\ \A c \in Clients : pc[c] = "idle"

\* The rows of list are rows of table, latest created first, as many as the
\* history holds or all of them, and every row left out was created before
\* every row listed.
RecentFirst(list, table) ==
    /\ Len(list) = IF Len(table) < HistoryLimit THEN Len(table) ELSE HistoryLimit
    /\ \A i \in DOMAIN list : \E k \in DOMAIN table : table[k] = list[i]
    /\ \A i, j \in DOMAIN list : i < j => list[i].id > list[j].id
    /\ \A k \in DOMAIN table :
          \/ \E i \in DOMAIN list : list[i] = table[k]
          \/ \A i \in DOMAIN list : table[k].id < list[i].id

\* C21: the history the Stock page loads holds at most 50 movements, the most
\* recently created ones, latest first; when the table holds more than 50
\* the older ones are left out.
C21_HistoryRecentFirst ==
    [][ \A c \in DOMAIN pageMovements :
            ( /\ location[c] = "/stock"
              /\ location'[c] = "/stock"
              /\ "loadMovements" \in pending[c]
              /\ "loadMovements" \notin pending'[c] )
            => /\ Len(pageMovements'[c]) <= HistoryLimit
               /\ RecentFirst(pageMovements'[c], stock_movements)
      ]_vars

\* The table holds more rows than the history shows, the two oldest stored
\* in the reverse of the order they were created in, and the page has loaded
\* a full history that ends before the oldest row.
C21_Witness ==
    /\ Len(stock_movements) > HistoryLimit
    /\ stock_movements[1].id > stock_movements[2].id
    /\ Len(pageMovements[Visitor]) = HistoryLimit
    /\ pageMovements[Visitor][1].id = Len(stock_movements)
    /\ pageMovements[Visitor][HistoryLimit].id > 1

\* The statement of client c is an entry that would take its product past
\* the largest value the column holds.
WouldOverflow(c) ==
    /\ pc[c] = "inserted"
    /\ tx[c].movement_type = "entrada"
    /\ tx[c].product_id \in DOMAIN products
    /\ products[tx[c].product_id].current_quantity + tx[c].quantity > NumericMax

\* C22: an entry that would raise current_quantity above the largest value of
\* its DECIMAL column fails as a whole: the step that answers it answers with
\* the overflow error, stores no movement and leaves every product as it
\* was; no stored balance is ever above that value.
C22_OverflowFailsWhole ==
    [][ /\ \A id \in DOMAIN products' :
              products'[id].current_quantity <= NumericMax
        /\ \A c \in Clients :
              (WouldOverflow(c) /\ pc'[c] = "idle")
              => /\ response' = NumericOverflow
                 /\ stock_movements' = stock_movements
                 /\ products' = products
      ]_vars

\* An entry of 15 was stored on the seeded product, and an entry of 90 that
\* would have taken it past the column's range was answered with the
\* overflow error: the balance is the one the first entry left.
C22_Witness ==
    /\ response = NumericOverflow
    /\ \A c \in Clients : pc[c] = "idle"
    /\ Len(stock_movements) = 1
    /\ stock_movements[1].movement_type = "entrada"
    /\ 1 \in DOMAIN products
    /\ products[1].current_quantity = 3500
    /\ products[1].current_quantity + 9000 > NumericMax

\* C23: the statistics the Dashboard shows always have lowStockProducts <=
\* totalProducts, also when products are created or deleted while the four
\* queries of loadDashboardData are in flight.
C23_LowWithinTotal ==
    \A c \in DOMAIN stats :
        stats[c].lowStockProducts <= stats[c].totalProducts

====
